---------------------------- MODULE Spec2Model ----------------------------
(***************************************************************************)
(* A model of src/librustc_mir/transform/simplify_try.rs: the two MIR      *)
(* passes SimplifyArmIdentity and SimplifyBranchSame.                      *)
(*                                                                         *)
(* Statement indices are 1-based here (TLA+ sequences) where the source    *)
(* counts from 0; every index of the model is the source's index plus one. *)
(* An Option is a sequence: None is << >> and Some(x) is << x >>.          *)
(***************************************************************************)
EXTENDS Integers, Sequences, FiniteSets, TLC

VARIABLES
    basic_blocks,       \* body.basic_blocks: the blocks of the function body
    local_decls,        \* body.local_decls: the declared type of every local
    bb,                 \* position of the `for` loop of run_pass: next block
    run,                \* which invocation of the pass is running (1 or 2)
    status,             \* "running", "finished" or "panicked"
    opt_info,           \* the Option returned by the last get_arm_identity_info
    did_remove_blocks,  \* SimplifyBranchSame's flag of the same name
    input,              \* the body as it was handed to the first invocation
    log                 \* per invocation, what was done with each block

vars == << basic_blocks, local_decls, bb, run, status, opt_info,
           did_remove_blocks, input, log >>

---------------------------------------------------------------------------
(* Bounds of the model *)

\* How many times the driver invokes a pass on one body
MaxRuns == 2

\* The most statements drawn freely from CorePool after a block's read
MaxLen == 4

\* The most storage markers put into an example block
MaxMarkers == 2

\* The most storage markers put around the documentation's example
MaxPairing == 5

\* The most targets of the first SwitchInt of a body
MaxTargets == 3

---------------------------------------------------------------------------
(* Option *)

None == << >>

Some(x) == << x >>

IsSome(o) == o # None

Unwrap(o) == o[1]

---------------------------------------------------------------------------
(* The IR: places, operands, rvalues, statements, terminators, blocks *)

Downcast(var_idx) == [elem |-> "Downcast", var_idx |-> var_idx]

Field(field, ty) == [elem |-> "Field", field |-> field, ty |-> ty]

Deref == [elem |-> "Deref"]

Place(local, projection) == [local |-> local, projection |-> projection]

\* `local.into()`: the place of a whole local
LocalPlace(local) == Place(local, << >>)

VariantFieldPlace(local, var_idx, field, ty) ==
    Place(local, << Downcast(var_idx), Field(field, ty) >>)

\* Place::as_local
as_local(place) ==
    IF place.projection = << >> THEN Some(place.local) ELSE None

Copy(place) == [op |-> "Copy", place |-> place]

Move(place) == [op |-> "Move", place |-> place]

Constant == [op |-> "Constant"]

Use(operand) == [rv |-> "Use", operand |-> operand]

BinaryOp == [rv |-> "BinaryOp"]

Assign(place, rvalue) == [kind |-> "Assign", place |-> place, rvalue |-> rvalue]

SetDiscriminant(place, variant_index) ==
    [kind |-> "SetDiscriminant", place |-> place, variant_index |-> variant_index]

StorageLive(l) == [kind |-> "StorageLive", local |-> l]

StorageDead(l) == [kind |-> "StorageDead", local |-> l]

Nop == [kind |-> "Nop"]

InlineAsm == [kind |-> "InlineAsm"]

Statement(source_info, kind) == [source_info |-> source_info, kind |-> kind]

Goto(target) == [kind |-> "Goto", target |-> target]

SwitchInt(discr, targets) == [kind |-> "SwitchInt", discr |-> discr, targets |-> targets]

Return == [kind |-> "Return"]

Unreachable == [kind |-> "Unreachable"]

Terminator(source_info, kind) == [source_info |-> source_info, kind |-> kind]

BasicBlockData(statements, terminator, is_cleanup) ==
    [statements |-> statements, terminator |-> terminator, is_cleanup |-> is_cleanup]

---------------------------------------------------------------------------
(* The atomic recognizers *)

VarField(field, field_ty, var_idx) ==
    [field |-> field, field_ty |-> field_ty, var_idx |-> var_idx]

\* Match on `((_LOCAL as Variant).FIELD: TY)`: Option<(Local, VarField)>
match_variant_field_place(place) ==
    IF /\ Len(place.projection) = 2
       /\ place.projection[1].elem = "Downcast"
       /\ place.projection[2].elem = "Field"
    THEN Some(<< place.local,
                 VarField(place.projection[2].field, place.projection[2].ty,
                          place.projection[1].var_idx) >>)
    ELSE None

\* Match on `_LOCAL_INTO = ((_LOCAL_FROM as Variant).FIELD: TY);`
match_get_variant_field(stmt) ==
    IF /\ stmt.kind.kind = "Assign"
       /\ stmt.kind.rvalue.rv = "Use"
       /\ stmt.kind.rvalue.operand.op \in {"Copy", "Move"}
    THEN LET local_into == as_local(stmt.kind.place)
             from == match_variant_field_place(stmt.kind.rvalue.operand.place)
         IN  IF IsSome(local_into) /\ IsSome(from)
             THEN Some(<< Unwrap(local_into), Unwrap(from)[1], Unwrap(from)[2] >>)
             ELSE None
    ELSE None

\* Match on `((_LOCAL_FROM as Variant).FIELD: TY) = move _LOCAL_INTO;`
match_set_variant_field(stmt) ==
    IF /\ stmt.kind.kind = "Assign"
       /\ stmt.kind.rvalue.rv = "Use"
       /\ stmt.kind.rvalue.operand.op = "Move"
    THEN LET local_into == as_local(stmt.kind.rvalue.operand.place)
             from == match_variant_field_place(stmt.kind.place)
         IN  IF IsSome(local_into) /\ IsSome(from)
             THEN Some(<< Unwrap(local_into), Unwrap(from)[1], Unwrap(from)[2] >>)
             ELSE None
    ELSE None

\* Match on `discriminant(_LOCAL_TO_SET) = VAR_IDX;`
match_set_discr(stmt) ==
    IF stmt.kind.kind = "SetDiscriminant"
    THEN LET l == as_local(stmt.kind.place)
         IN  IF IsSome(l) THEN Some(<< Unwrap(l), stmt.kind.variant_index >>) ELSE None
    ELSE None

---------------------------------------------------------------------------
(* get_arm_identity_info: the scan of one block's statements *)

\* The locals of get_arm_identity_info before its loop; `returned` is set
\* when the loop leaves the function with None (a `return None` or a `?`).
ScanLocals ==
    [ local_tmp_s0 |-> None, local_1 |-> None, vf_s0 |-> None,
      tmp_assigns |-> << >>,
      local_tmp_s1 |-> None, local_0 |-> None, vf_s1 |-> None,
      set_discr_local |-> None, set_discr_var_idx |-> None,
      starting_stmt |-> None, discr_stmt |-> None,
      nop_stmts |-> << >>,
      storage_live_stmts |-> << >>, storage_dead_stmts |-> << >>,
      returned |-> FALSE ]

\* One iteration of the loop over stmts.iter().enumerate()
ScanStmt(st, stmt_idx, stmt) ==
    IF stmt.kind.kind = "StorageLive"
    THEN [st EXCEPT !.storage_live_stmts = Append(@, << stmt_idx, stmt.kind.local >>)]
    ELSE IF stmt.kind.kind = "StorageDead"
    THEN [st EXCEPT !.storage_dead_stmts = Append(@, << stmt_idx, stmt.kind.local >>)]
    ELSE IF st.local_tmp_s0 = None /\ st.local_1 = None /\ st.vf_s0 = None
    THEN LET result == match_get_variant_field(stmt)
         IN  IF result = None
             THEN [st EXCEPT !.returned = TRUE]
             ELSE [st EXCEPT !.local_tmp_s0 = Some(Unwrap(result)[1]),
                             !.local_1 = Some(Unwrap(result)[2]),
                             !.vf_s0 = Some(Unwrap(result)[3]),
                             !.starting_stmt = Some(stmt_idx)]
    ELSE IF stmt.kind.kind = "Assign" /\ stmt.kind.rvalue.rv = "Use"
    THEN LET place == stmt.kind.place
             op == stmt.kind.rvalue.operand
         IN  IF IsSome(as_local(place))
             THEN IF op.op \in {"Copy", "Move"}
                  THEN IF as_local(op.place) = None
                       THEN [st EXCEPT !.returned = TRUE]
                       ELSE [st EXCEPT
                               !.tmp_assigns =
                                   Append(@, << Unwrap(as_local(place)),
                                                Unwrap(as_local(op.place)) >>),
                               !.nop_stmts = Append(@, stmt_idx)]
                  ELSE [st EXCEPT !.returned = TRUE]
             ELSE IF st.local_tmp_s1 = None /\ st.local_0 = None /\ st.vf_s1 = None
             THEN LET result == match_set_variant_field(stmt)
                  IN  IF result = None
                      THEN [st EXCEPT !.returned = TRUE]
                      ELSE [st EXCEPT !.local_tmp_s1 = Some(Unwrap(result)[1]),
                                      !.local_0 = Some(Unwrap(result)[2]),
                                      !.vf_s1 = Some(Unwrap(result)[3]),
                                      !.nop_stmts = Append(@, stmt_idx)]
             ELSE st
    ELSE IF st.set_discr_local = None /\ st.set_discr_var_idx = None
    THEN LET result == match_set_discr(stmt)
         IN  IF result = None
             THEN [st EXCEPT !.returned = TRUE]
             ELSE [st EXCEPT !.set_discr_local = Some(Unwrap(result)[1]),
                             !.set_discr_var_idx = Some(Unwrap(result)[2]),
                             !.discr_stmt = Some(stmt),
                             !.nop_stmts = Append(@, stmt_idx)]
    ELSE st

\* The loop `for (stmt_idx, stmt) in stmts.iter().enumerate()`, from index i
RECURSIVE ScanFrom(_, _, _)
ScanFrom(stmts, i, st) ==
    IF st.returned \/ i > Len(stmts)
    THEN st
    ELSE ScanFrom(stmts, i + 1, ScanStmt(st, i, stmts[i]))

\* Iterator::rposition over (index, local) pairs: the last position whose
\* local is `local`, or 0 when there is none
RECURSIVE rposition(_, _)
rposition(seq, local) ==
    IF seq = << >> THEN 0
    ELSE IF seq[Len(seq)][2] = local THEN Len(seq)
    ELSE rposition(SubSeq(seq, 1, Len(seq) - 1), local)

\* Vec::swap_remove: the vector after removing position i by moving the last
\* element into its place
swap_remove(seq, i) ==
    IF i = Len(seq)
    THEN SubSeq(seq, 1, Len(seq) - 1)
    ELSE SubSeq(seq, 1, i - 1) \o << seq[Len(seq)] >> \o SubSeq(seq, i + 1, Len(seq) - 1)

\* The loop `for (live_idx, live_local) in storage_live_stmts`, from the k-th
\* StorageLive on; the result is storage_stmts
RECURSIVE PairStorage(_, _, _, _)
PairStorage(storage_live_stmts, k, storage_dead_stmts, storage_stmts) ==
    IF k > Len(storage_live_stmts)
    THEN storage_stmts
    ELSE LET live_idx == storage_live_stmts[k][1]
             live_local == storage_live_stmts[k][2]
             i == rposition(storage_dead_stmts, live_local)
         IN  IF i # 0
             THEN PairStorage(storage_live_stmts, k + 1,
                              swap_remove(storage_dead_stmts, i),
                              Append(storage_stmts,
                                     << live_idx, storage_dead_stmts[i][1], live_local >>))
             ELSE PairStorage(storage_live_stmts, k + 1, storage_dead_stmts,
                              storage_stmts)

\* get_arm_identity_info(stmts): Option<ArmIdentityInfo>
get_arm_identity_info(stmts) ==
    LET st == ScanFrom(stmts, 1, ScanLocals)
    IN  IF st.returned
        THEN None
        ELSE IF \/ st.local_tmp_s0 = None \/ st.local_1 = None \/ st.vf_s0 = None
                \/ st.local_tmp_s1 = None \/ st.local_0 = None \/ st.vf_s1 = None
                \/ st.set_discr_local = None \/ st.set_discr_var_idx = None
                \/ st.starting_stmt = None \/ st.discr_stmt = None
        THEN None
        ELSE Some([ local_temp_0 |-> Unwrap(st.local_tmp_s0),
                    local_1 |-> Unwrap(st.local_1),
                    vf_s0 |-> Unwrap(st.vf_s0),
                    field_tmp_assignments |-> st.tmp_assigns,
                    local_tmp_s1 |-> Unwrap(st.local_tmp_s1),
                    local_0 |-> Unwrap(st.local_0),
                    vf_s1 |-> Unwrap(st.vf_s1),
                    set_discr_local |-> Unwrap(st.set_discr_local),
                    set_discr_var_idx |-> Unwrap(st.set_discr_var_idx),
                    stmt_to_overwrite |-> Unwrap(st.starting_stmt),
                    source_info |-> Unwrap(st.discr_stmt).source_info,
                    storage_stmts |->
                        PairStorage(st.storage_live_stmts, 1,
                                    st.storage_dead_stmts, << >>),
                    stmts_to_remove |-> st.nop_stmts ])

---------------------------------------------------------------------------
(* optimization_applies: "true", "false", or "panic" when the indexing      *)
(* field_tmp_assignments[0] of line 171 is out of bounds                    *)

\* The loop of lines 173-180 from the k-th link on: the last destination
\* assigned to, or None when a link's source is not the previous destination
RECURSIVE ChainFrom(_, _, _)
ChainFrom(field_tmp_assignments, k, last_assigned_to) ==
    IF k > Len(field_tmp_assignments)
    THEN Some(last_assigned_to)
    ELSE IF field_tmp_assignments[k][2] # last_assigned_to
    THEN None
    ELSE ChainFrom(field_tmp_assignments, k + 1, field_tmp_assignments[k][1])

\* optimization_applies without its first test (lines 152-154)
optimization_applies_no_self_test(info, decls) ==
    IF info.vf_s0 # info.vf_s1 THEN "false"
    ELSE IF decls[info.local_0].ty # decls[info.local_1].ty THEN "false"
    ELSE IF << info.local_0, info.vf_s0.var_idx >>
            # << info.set_discr_local, info.set_discr_var_idx >> THEN "false"
    ELSE IF Len(info.field_tmp_assignments) = 0 THEN "panic"
    ELSE LET source_local == info.field_tmp_assignments[1][2]
             last_assigned_to == ChainFrom(info.field_tmp_assignments, 1, source_local)
         IN  IF last_assigned_to = None THEN "false"
             ELSE IF source_local # info.local_temp_0 THEN "false"
             ELSE IF Unwrap(last_assigned_to) # info.local_tmp_s1 THEN "false"
             ELSE "true"

optimization_applies(info, decls) ==
    IF info.local_0 = info.local_1 THEN "false"
    ELSE IF info.vf_s0 # info.vf_s1 THEN "false"
    ELSE IF decls[info.local_0].ty # decls[info.local_1].ty THEN "false"
    ELSE IF << info.local_0, info.vf_s0.var_idx >>
            # << info.set_discr_local, info.set_discr_var_idx >> THEN "false"
    ELSE IF Len(info.field_tmp_assignments) = 0 THEN "panic"
    ELSE LET source_local == info.field_tmp_assignments[1][2]
             last_assigned_to == ChainFrom(info.field_tmp_assignments, 1, source_local)
         IN  IF last_assigned_to = None THEN "false"
             ELSE IF source_local # info.local_temp_0 THEN "false"
             ELSE IF Unwrap(last_assigned_to) # info.local_tmp_s1 THEN "false"
             ELSE "true"

---------------------------------------------------------------------------
(* SimplifyArmIdentity::run_pass: the body of its loop over basic_blocks *)

\* Lines 217-222 with the test `*local == left` alone
RECURSIVE PushStorage_left_only(_, _, _, _, _)
PushStorage_left_only(left, right, storage_stmts, k, stmts_to_remove) ==
    IF k > Len(storage_stmts)
    THEN stmts_to_remove
    ELSE PushStorage_left_only(left, right, storage_stmts, k + 1,
                               IF storage_stmts[k][3] = left
                               THEN stmts_to_remove
                                    \o << storage_stmts[k][1], storage_stmts[k][2] >>
                               ELSE stmts_to_remove)

\* Lines 217-222: the inner loop over storage_stmts for one link, from the
\* k-th pair on
RECURSIVE PushStorage(_, _, _, _, _)
PushStorage(left, right, storage_stmts, k, stmts_to_remove) ==
    IF k > Len(storage_stmts)
    THEN stmts_to_remove
    ELSE LET live_idx == storage_stmts[k][1]
             dead_idx == storage_stmts[k][2]
             local == storage_stmts[k][3]
         IN  PushStorage(left, right, storage_stmts, k + 1,
                         IF local = left \/ local = right
                         THEN stmts_to_remove \o << live_idx, dead_idx >>
                         ELSE stmts_to_remove)

\* Lines 216-223: the loop over field_tmp_assignments, from the k-th link on
RECURSIVE ExtendStmtsToRemove(_, _, _, _)
ExtendStmtsToRemove(field_tmp_assignments, k, storage_stmts, stmts_to_remove) ==
    IF k > Len(field_tmp_assignments)
    THEN stmts_to_remove
    ELSE ExtendStmtsToRemove(field_tmp_assignments, k + 1, storage_stmts,
                             PushStorage(field_tmp_assignments[k][1],
                                         field_tmp_assignments[k][2],
                                         storage_stmts, 1, stmts_to_remove))

\* Lines 226-234 forgotten: the read stays as it is
Overwrite_forgotten(statements, info) == statements

\* Lines 226-234: the statement at stmt_to_overwrite becomes
\* `local_0 = move local_1` with the source_info of the discriminant-set
Overwrite(statements, info) ==
    [statements EXCEPT ![info.stmt_to_overwrite] =
        Statement(info.source_info,
                  Assign(LocalPlace(info.local_0),
                         Use(Move(LocalPlace(info.local_1)))))]

\* Statement::make_nop
make_nop(stmt) == [stmt EXCEPT !.kind = Nop]

\* Lines 236-238: make_nop on every index of stmts_to_remove, from the k-th on
RECURSIVE MakeNops(_, _, _)
MakeNops(statements, stmts_to_remove, k) ==
    IF k > Len(stmts_to_remove)
    THEN statements
    ELSE MakeNops([statements EXCEPT ![stmts_to_remove[k]] = make_nop(@)],
                  stmts_to_remove, k + 1)

\* Line 240: bb.statements.retain(|stmt| stmt.kind != StatementKind::Nop)
NotNop(stmt) == stmt.kind # Nop

RetainNotNop(statements) == SelectSeq(statements, NotNop)

\* Lines 214-240: the statements of an accepted block after the rewrite
RewriteBlock(statements, info) ==
    LET stmts_to_remove ==
            ExtendStmtsToRemove(info.field_tmp_assignments, 1, info.storage_stmts,
                                info.stmts_to_remove)
    IN  RetainNotNop(MakeNops(Overwrite(statements, info), stmts_to_remove, 1))

\* What is recorded about the block just handled
Logged(what) == [log EXCEPT ![run] = Append(@, what)]

\* Line 201: get_arm_identity_info returns None; the block is skipped
ArmNoCandidate ==
    /\ status = "running"
    /\ bb <= Len(basic_blocks)
    /\ LET info == get_arm_identity_info(basic_blocks[bb].statements)
       IN  /\ info = None
           /\ opt_info' = info
    /\ bb' = bb + 1
    /\ log' = Logged("none")
    /\ UNCHANGED << basic_blocks, local_decls, run, status, did_remove_blocks, input >>

\* Lines 203-206: optimization_applies returns false; `continue`
ArmSkip ==
    /\ status = "running"
    /\ bb <= Len(basic_blocks)
    /\ LET info == get_arm_identity_info(basic_blocks[bb].statements)
       IN  /\ IsSome(info)
           /\ optimization_applies(Unwrap(info), local_decls) = "false"
           /\ opt_info' = info
    /\ bb' = bb + 1
    /\ log' = Logged("rejected")
    /\ UNCHANGED << basic_blocks, local_decls, run, status, did_remove_blocks, input >>

\* Line 171: optimization_applies indexes an empty field_tmp_assignments;
\* the pass panics and no later block is visited
ArmPanic ==
    /\ status = "running"
    /\ bb <= Len(basic_blocks)
    /\ LET info == get_arm_identity_info(basic_blocks[bb].statements)
       IN  /\ IsSome(info)
           /\ optimization_applies(Unwrap(info), local_decls) = "panic"
           /\ opt_info' = info
    /\ status' = "panicked"
    /\ log' = Logged("panicked")
    /\ UNCHANGED << basic_blocks, local_decls, bb, run, did_remove_blocks, input >>

\* Lines 208-242: the block is rewritten in place
ArmRewrite ==
    /\ status = "running"
    /\ bb <= Len(basic_blocks)
    /\ LET info == get_arm_identity_info(basic_blocks[bb].statements)
       IN  /\ IsSome(info)
           /\ optimization_applies(Unwrap(info), local_decls) = "true"
           /\ opt_info' = info
           /\ basic_blocks' =
                  [basic_blocks EXCEPT ![bb].statements = RewriteBlock(@, Unwrap(info))]
    /\ bb' = bb + 1
    /\ log' = Logged("rewritten")
    /\ UNCHANGED << local_decls, run, status, did_remove_blocks, input >>

\* Line 245: the loop is over and run_pass returns
ArmReturn ==
    /\ status = "running"
    /\ bb > Len(basic_blocks)
    /\ status' = "finished"
    /\ UNCHANGED << basic_blocks, local_decls, bb, run, opt_info, did_remove_blocks,
                    input, log >>

\* The driver runs the pass again on the body the last invocation left
ArmInvokeAgain ==
    /\ status = "finished"
    /\ run < MaxRuns
    /\ run' = run + 1
    /\ bb' = 1
    /\ status' = "running"
    /\ opt_info' = None
    /\ input' = Append(input, basic_blocks)
    /\ log' = Append(log, << >>)
    /\ UNCHANGED << basic_blocks, local_decls, did_remove_blocks >>

NextArm ==
    \/ ArmNoCandidate
    \/ ArmSkip
    \/ ArmPanic
    \/ ArmRewrite
    \/ ArmReturn
    \/ ArmInvokeAgain

---------------------------------------------------------------------------
(* The bodies SimplifyArmIdentity is run on *)

\* _0 and _1 hold enums, _2 to _4 are temporaries of the field's type
Locals == {"_0", "_1", "_2", "_3", "_4"}

LocalDecl(ty) == [ty |-> ty]

\* _0 and _1 are declared with the same type
SameTypeDecls ==
    [l \in Locals |-> IF l \in {"_0", "_1"} THEN LocalDecl("Enum") ELSE LocalDecl("T")]

\* _1 is declared with another type than _0
OtherTypeDecls == [SameTypeDecls EXCEPT !["_1"] = LocalDecl("OtherEnum")]

\* `_2 = ((_1 as V0).f0: T)`
ReadStmt == Assign(LocalPlace("_2"), Use(Copy(VariantFieldPlace("_1", "V0", "f0", "T"))))

\* `_2 = ((_0 as V0).f0: T)`: a read of the local the write goes to
ReadSelfStmt == Assign(LocalPlace("_2"), Use(Copy(VariantFieldPlace("_0", "V0", "f0", "T"))))

\* `_3 = move _2`
LinkStmt == Assign(LocalPlace("_3"), Use(Move(LocalPlace("_2"))))

\* `_2 = _3`
BackLinkStmt == Assign(LocalPlace("_2"), Use(Copy(LocalPlace("_3"))))

\* `_4 = move _3`
Link2Stmt == Assign(LocalPlace("_4"), Use(Move(LocalPlace("_3"))))

\* `((_0 as V0).f0: T) = move _3`
WriteStmt == Assign(VariantFieldPlace("_0", "V0", "f0", "T"), Use(Move(LocalPlace("_3"))))

\* `((_0 as V1).f0: T) = move _3`
WriteV1Stmt == Assign(VariantFieldPlace("_0", "V1", "f0", "T"), Use(Move(LocalPlace("_3"))))

\* `((_0 as V0).f0: T) = move _4`
Write4Stmt == Assign(VariantFieldPlace("_0", "V0", "f0", "T"), Use(Move(LocalPlace("_4"))))

\* `discriminant(_0) = V0`
DiscrStmt == SetDiscriminant(LocalPlace("_0"), "V0")

\* `discriminant(_0) = V1`
DiscrV1Stmt == SetDiscriminant(LocalPlace("_0"), "V1")

\* `(*_4) = move _3`
DerefWriteStmt == Assign(Place("_4", << Deref >>), Use(Move(LocalPlace("_3"))))

\* The statements a block drawn freely begins with: the scan gives up on a
\* block whose first statement that is no storage marker is not a read
FirstPool == { ReadStmt, ReadSelfStmt }

\* The statement kinds the rest of such a block is drawn from
CorePool ==
    { LinkStmt, BackLinkStmt, WriteStmt, WriteV1Stmt, DiscrStmt, DiscrV1Stmt,
      InlineAsm, DerefWriteStmt }

\* Storage markers of _2 (a chain temporary of every example) and of _4
\* (a chain temporary of TwoLinkKinds only)
MarkerPool ==
    { StorageLive("_2"), StorageDead("_2"), StorageLive("_4"), StorageDead("_4") }

\* The sequences over S of length at most n
SeqsUpTo(S, n) == UNION { [1..k -> S] : k \in 0..n }

\* A block of the given statement kinds; a statement's source_info is its
\* position in the block as built
Block(kinds) ==
    BasicBlockData([i \in 1..Len(kinds) |-> Statement(i, kinds[i])],
                   Terminator(Len(kinds) + 1, Return), FALSE)

\* The example of the pass's documentation (lines 24-27)
DocKinds == << ReadStmt, LinkStmt, WriteStmt, DiscrStmt >>

\* A chain of two links
TwoLinkKinds == << ReadStmt, LinkStmt, Link2Stmt, Write4Stmt, DiscrStmt >>

\* The documentation's example followed by a second write and a second
\* discriminant-set, and by an inline asm
DupTailKinds == DocKinds \o << WriteStmt, DiscrStmt, InlineAsm >>

\* A read, a write and a discriminant-set with no link between them
EmptyChainKinds == << ReadStmt, WriteStmt, DiscrStmt >>

\* A block that does not begin with a read
NoReadKinds == << InlineAsm, ReadStmt, LinkStmt, WriteStmt, DiscrStmt >>

\* The documentation's example reading from the local it writes to
SelfMoveKinds == << ReadSelfStmt, LinkStmt, WriteStmt, DiscrStmt >>

ExampleKinds ==
    { DocKinds, TwoLinkKinds, DupTailKinds, EmptyChainKinds, SelfMoveKinds, NoReadKinds }

\* `kinds` with `markers` put, in order, at the positions P of the result
Interleave(kinds, markers, P) ==
    [i \in 1..(Len(kinds) + Len(markers)) |->
        IF i \in P
        THEN markers[Cardinality({p \in P : p <= i})]
        ELSE kinds[i - Cardinality({p \in P : p < i})]]

\* The documentation's example within the storage markers of its temporary
WrappedDocKinds == << StorageLive("_2") >> \o DocKinds \o << StorageDead("_2") >>

\* The example blocks storage markers are put into: the first two and the
\* last are rewritten to the move alone, the third keeps an inline asm
MarkedKinds == { DocKinds, TwoLinkKinds, DocKinds \o << InlineAsm >>, WrappedDocKinds }

InitWith(body, decls) ==
    /\ basic_blocks = body
    /\ local_decls = decls
    /\ bb = 1
    /\ run = 1
    /\ status = "running"
    /\ opt_info = None
    /\ did_remove_blocks = FALSE
    /\ input = << body >>
    /\ log = << << >> >>

\* A body of two example blocks
InitExample ==
    \E k1 \in ExampleKinds, k2 \in ExampleKinds :
        InitWith(<< Block(k1), Block(k2) >>, SameTypeDecls)

\* A body of one block: a read, then at most MaxLen statements drawn freely
\* from CorePool; _0 and _1 of the same type or not
InitCore ==
    \E first \in FirstPool, rest \in SeqsUpTo(CorePool, MaxLen),
       decls \in {SameTypeDecls, OtherTypeDecls} :
        InitWith(<< Block(<< first >> \o rest) >>, decls)

\* A body of one example block with at most MaxMarkers storage markers
\* anywhere in it
InitInterleaved ==
    \E kinds \in MarkedKinds, markers \in SeqsUpTo(MarkerPool, MaxMarkers) :
        \E P \in SUBSET (1..(Len(kinds) + Len(markers))) :
            /\ Cardinality(P) = Len(markers)
            /\ InitWith(<< Block(Interleave(kinds, markers, P)) >>, SameTypeDecls)

\* A body of the documentation's example with at most MaxPairing storage
\* markers, some before it and the others after it
InitAround ==
    \E markers \in SeqsUpTo(MarkerPool, MaxPairing) :
        \E cut \in 0..Len(markers) :
            InitWith(<< Block(SubSeq(markers, 1, cut) \o DocKinds
                              \o SubSeq(markers, cut + 1, Len(markers))) >>,
                     SameTypeDecls)

InitArm == InitCore \/ InitExample

InitMarked == InitInterleaved \/ InitExample

InitPairing == InitAround \/ InitExample

SpecArm == InitArm /\ [][NextArm]_vars

SpecMarked == InitMarked /\ [][NextArm]_vars

SpecPairing == InitPairing /\ [][NextArm]_vars

---------------------------------------------------------------------------
(* SimplifyBranchSame::run_pass *)

\* The filter without its InlineAsm clause
Survives_by_terminator(block) == block.terminator.kind # Unreachable

\* Lines 333-343: the filter's closure: the block does not end in
\* Unreachable, or holds an InlineAsm statement
Survives(block) ==
    \/ block.terminator.kind # Unreachable
    \/ \E i \in DOMAIN block.statements : block.statements[i].kind.kind = "InlineAsm"

\* Lines 330-344: the targets from the k-th on that pass the filter
RECURSIVE iter_bbs_reachable(_, _, _)
iter_bbs_reachable(bbs, targets, k) ==
    IF k > Len(targets) THEN << >>
    ELSE IF Survives(bbs[targets[k]])
    THEN << targets[k] >> \o iter_bbs_reachable(bbs, targets, k + 1)
    ELSE iter_bbs_reachable(bbs, targets, k + 1)

\* The first declared target, whether it survives or not
bb_first_declared(bbs, targets) == targets[1]

\* Line 347: iter_bbs_reachable.peek(), or targets[0]
bb_first(bbs, targets) ==
    LET reachable == iter_bbs_reachable(bbs, targets, 1)
    IN  IF reachable # << >> THEN reachable[1] ELSE targets[1]

\* The comparison of zip().all(..), which stops at the end of the shorter list
eq_by_zip(xs, ys) ==
    \A i \in DOMAIN xs \cap DOMAIN ys : xs[i].kind = ys[i].kind

\* Line 354: Iterator::eq_by on the statements' kinds
eq_by(xs, ys) ==
    /\ Len(xs) = Len(ys)
    /\ \A i \in DOMAIN xs : xs[i].kind = ys[i].kind

\* Lines 352-354: the closure of `all`
SameForm(bb_l, bb_r) ==
    /\ bb_l.is_cleanup = bb_r.is_cleanup
    /\ bb_l.terminator.kind = bb_r.terminator.kind
    /\ eq_by(bb_l.statements, bb_r.statements)

\* Lines 350-355: tuple_windows().all(..) over the surviving targets
all_successors_equivalent(bbs, targets) ==
    LET reachable == iter_bbs_reachable(bbs, targets, 1)
    IN  \A k \in 1..(Len(reachable) - 1) :
            SameForm(bbs[reachable[k]], bbs[reachable[k + 1]])

\* Lines 325-328: the terminator is no SwitchInt; `continue`
BranchContinue ==
    /\ status = "running"
    /\ bb <= Len(basic_blocks)
    /\ basic_blocks[bb].terminator.kind.kind # "SwitchInt"
    /\ bb' = bb + 1
    /\ log' = Logged("continue")
    /\ UNCHANGED << basic_blocks, local_decls, run, status, opt_info,
                    did_remove_blocks, input >>

\* Lines 357-361: the successors have the same form; the SwitchInt becomes
\* a Goto to bb_first
BranchGoto ==
    /\ status = "running"
    /\ bb <= Len(basic_blocks)
    /\ basic_blocks[bb].terminator.kind.kind = "SwitchInt"
    /\ LET targets == basic_blocks[bb].terminator.kind.targets
       IN  /\ all_successors_equivalent(basic_blocks, targets)
           /\ basic_blocks' =
                  [basic_blocks EXCEPT ![bb].terminator.kind =
                                           Goto(bb_first(basic_blocks, targets))]
    /\ did_remove_blocks' = TRUE
    /\ bb' = bb + 1
    /\ log' = Logged("goto")
    /\ UNCHANGED << local_decls, run, status, opt_info, input >>

\* Line 357: the successors differ; the block stays as it is
BranchKeep ==
    /\ status = "running"
    /\ bb <= Len(basic_blocks)
    /\ basic_blocks[bb].terminator.kind.kind = "SwitchInt"
    /\ ~all_successors_equivalent(basic_blocks,
                                  basic_blocks[bb].terminator.kind.targets)
    /\ bb' = bb + 1
    /\ log' = Logged("kept")
    /\ UNCHANGED << basic_blocks, local_decls, run, status, opt_info,
                    did_remove_blocks, input >>

\* The targets of a terminator
Successors(kind) ==
    IF kind.kind = "Goto" THEN {kind.target}
    ELSE IF kind.kind = "SwitchInt" THEN {kind.targets[k] : k \in DOMAIN kind.targets}
    ELSE {}

\* The blocks that can be reached from those of `seen`
RECURSIVE ReachableFrom(_, _)
ReachableFrom(bbs, seen) ==
    LET more == seen \cup UNION { Successors(bbs[i].terminator.kind) : i \in seen }
    IN  IF more = seen THEN seen ELSE ReachableFrom(bbs, more)

\* simplify::remove_dead_blocks (spec.md section 6): the blocks that cannot
\* be reached from the entry block are removed, the others keep their order
\* and the targets are renumbered
remove_dead_blocks(bbs) ==
    LET live == ReachableFrom(bbs, {1})
        new(i) == Cardinality({j \in live : j <= i})
        old(n) == CHOOSE i \in live : new(i) = n
        renumber(kind) ==
            IF kind.kind = "Goto" THEN Goto(new(kind.target))
            ELSE IF kind.kind = "SwitchInt"
            THEN SwitchInt(kind.discr,
                           [k \in DOMAIN kind.targets |-> new(kind.targets[k])])
            ELSE kind
    IN  [n \in 1..Cardinality(live) |->
            [bbs[old(n)] EXCEPT !.terminator.kind = renumber(@)]]

\* Lines 364-367: some SwitchInt became a Goto; the dead blocks are removed
\* and run_pass returns
BranchRemoveDeadBlocks ==
    /\ status = "running"
    /\ bb > Len(basic_blocks)
    /\ did_remove_blocks
    /\ basic_blocks' = remove_dead_blocks(basic_blocks)
    /\ status' = "finished"
    /\ UNCHANGED << local_decls, bb, run, opt_info, did_remove_blocks, input, log >>

\* Lines 364-368: no SwitchInt became a Goto; run_pass returns
BranchReturn ==
    /\ status = "running"
    /\ bb > Len(basic_blocks)
    /\ ~did_remove_blocks
    /\ status' = "finished"
    /\ UNCHANGED << basic_blocks, local_decls, bb, run, opt_info, did_remove_blocks,
                    input, log >>

NextBranch ==
    \/ BranchContinue
    \/ BranchGoto
    \/ BranchKeep
    \/ BranchRemoveDeadBlocks
    \/ BranchReturn

---------------------------------------------------------------------------
(* The bodies SimplifyBranchSame is run on: four blocks, the first two of   *)
(* which may end in a SwitchInt, the last two of which do not               *)

\* The blocks that do not end in a SwitchInt; i is the block's index, which
\* its statements and its terminator have as source_info
LeafBlocks(i) ==
    { BasicBlockData(<< >>, Terminator(i, Return), FALSE),
      BasicBlockData(<< Statement(i, LinkStmt) >>, Terminator(i, Return), FALSE),
      BasicBlockData(<< >>, Terminator(i, Unreachable), FALSE),
      BasicBlockData(<< Statement(i, InlineAsm) >>, Terminator(i, Unreachable), FALSE),
      BasicBlockData(<< >>, Terminator(i, Return), TRUE),
      BasicBlockData(<< >>, Terminator(i, Goto(3)), FALSE) }

\* A block of no statement that ends in a SwitchInt on _1
SwitchBlock(i, targets) ==
    BasicBlockData(<< >>, Terminator(i, SwitchInt(Copy(LocalPlace("_1")), targets)), FALSE)

\* The non-empty sequences over S of length at most n
TargetLists(S, n) == UNION { [1..k -> S] : k \in 1..n }

InitBranch ==
    \E t1 \in TargetLists({2, 3, 4}, MaxTargets),
       b2 \in { SwitchBlock(2, t2) : t2 \in [1..2 -> {1, 3, 4}] } \cup LeafBlocks(2),
       b3 \in LeafBlocks(3), b4 \in LeafBlocks(4) :
        InitWith(<< SwitchBlock(1, t1), b2, b3, b4 >>, SameTypeDecls)

SpecBranch == InitBranch /\ [][NextBranch]_vars

---------------------------------------------------------------------------
(* What the statements do when they run (spec.md section 3): a store gives  *)
(* every local its value, an enum value being its discriminant and the      *)
(* contents of its one field, a temporary's value being a scalar.           *)

EnumValue(discr, f0) == [discr |-> discr, f0 |-> f0]

\* The value an operand's place holds
ReadPlace(place, store) ==
    IF place.projection = << >> THEN store[place.local] ELSE store[place.local].f0

\* The store after `place = value`
WritePlace(place, value, store) ==
    IF place.projection = << >>
    THEN [store EXCEPT ![place.local] = value]
    ELSE [store EXCEPT ![place.local].f0 = value]

\* The statements this semantics covers: copies and moves between whole
\* locals and variant fields, discriminant-sets of whole locals, storage
\* markers and nops
HasSemantics(stmt) ==
    \/ stmt.kind.kind \in {"StorageLive", "StorageDead", "Nop"}
    \/ IsSome(match_set_discr(stmt))
    \/ /\ stmt.kind.kind = "Assign"
       /\ stmt.kind.rvalue.rv = "Use"
       /\ stmt.kind.rvalue.operand.op \in {"Copy", "Move"}
       /\ \A place \in {stmt.kind.place, stmt.kind.rvalue.operand.place} :
              IsSome(as_local(place)) \/ IsSome(match_variant_field_place(place))

\* The store after one statement
ExecStmt(stmt, store) ==
    IF stmt.kind.kind = "Assign"
    THEN WritePlace(stmt.kind.place,
                    ReadPlace(stmt.kind.rvalue.operand.place, store), store)
    ELSE IF stmt.kind.kind = "SetDiscriminant"
    THEN [store EXCEPT ![stmt.kind.place.local].discr = stmt.kind.variant_index]
    ELSE store

\* The store after the statements from the i-th on
RECURSIVE ExecFrom(_, _, _)
ExecFrom(statements, i, store) ==
    IF i > Len(statements)
    THEN store
    ELSE ExecFrom(statements, i + 1, ExecStmt(statements[i], store))

\* The stores a block of the bodies above may start from: the enum read from
\* holds the variant V0 that ReadStmt reads, so that no read is of a variant
\* the enum is not in
Stores ==
    { [l \in Locals |->
         IF l = "_0" THEN EnumValue(s[1], s[2])
         ELSE IF l = "_1" THEN EnumValue("V0", s[3])
         ELSE IF l = "_2" THEN s[4]
         ELSE IF l = "_3" THEN s[5] ELSE s[6]] :
      s \in {"V0", "V1"} \X {"a", "b"} \X {"a", "b"} \X {"a", "b"} \X {"a", "b"}
            \X {"a", "b"} }

---------------------------------------------------------------------------
(* What the claims are stated over *)

\* The blocks invocation r has handled so far
Handled(r) == 1..Len(log[r])

\* Block b as invocation r found it
Before(r, b) == input[r][b]

\* Block b as invocation r left it, for a block r has handled
After(r, b) == IF r < run THEN input[r + 1][b] ELSE basic_blocks[b]

\* The candidate invocation r found in block b
Candidate(r, b) == get_arm_identity_info(Before(r, b).statements)

---------------------------------------------------------------------------
(* SimplifyArmIdentity: the claims *)

\* C1: for every block the pass rewrites, running the rewritten block from
\* any store leaves the destination local local_0 with the same final value
\* (discriminant and field) as running the original statements from that
\* store, whatever the order of the read, the links, the write and the
\* discriminant-set in the accepted block.
C1_RewriteIsSound ==
    \A r \in 1..run : \A b \in Handled(r) :
        ( /\ log[r][b] = "rewritten"
          /\ \A i \in DOMAIN Before(r, b).statements :
                 HasSemantics(Before(r, b).statements[i]) )
        => \A store \in Stores :
               ExecFrom(After(r, b).statements, 1, store)[Unwrap(Candidate(r, b)).local_0]
               = ExecFrom(Before(r, b).statements, 1, store)[Unwrap(Candidate(r, b)).local_0]

\* Validity conditions 1 to 4 of a candidate: distinct locals, equal
\* field/variant descriptors, equal declared types, matching discriminant
Conditions1To4(info) ==
    /\ info.local_0 # info.local_1
    /\ info.vf_s0 = info.vf_s1
    /\ local_decls[info.local_0].ty = local_decls[info.local_1].ty
    /\ info.set_discr_local = info.local_0
    /\ info.set_discr_var_idx = info.vf_s1.var_idx

\* C4: a candidate with a read, a write and a discriminant-set but no chain
\* link, which satisfies validity conditions 1 to 4, is rejected: the pass
\* completes normally and the block is left exactly as found.
C4_EmptyChainIsRejected ==
    \A r \in 1..run : \A b \in Handled(r) :
        ( /\ IsSome(Candidate(r, b))
          /\ Unwrap(Candidate(r, b)).field_tmp_assignments = << >>
          /\ Conditions1To4(Unwrap(Candidate(r, b))) )
        => /\ log[r][b] = "rejected"
           /\ status # "panicked"
           /\ After(r, b) = Before(r, b)

\* The statement shapes the scan knows: a storage marker, the variant-field
\* read, the variant-field write, a discriminant-set of a whole local, a
\* plain copy or move between whole locals
Recognized(stmt) ==
    \/ stmt.kind.kind \in {"StorageLive", "StorageDead"}
    \/ IsSome(match_get_variant_field(stmt))
    \/ IsSome(match_set_variant_field(stmt))
    \/ IsSome(match_set_discr(stmt))
    \/ /\ stmt.kind.kind = "Assign"
       /\ stmt.kind.rvalue.rv = "Use"
       /\ stmt.kind.rvalue.operand.op \in {"Copy", "Move"}
       /\ IsSome(as_local(stmt.kind.place))
       /\ IsSome(as_local(stmt.kind.rvalue.operand.place))

\* C5: a block that holds, at any position, a statement of none of the
\* recognized shapes yields no candidate and is left unchanged, also when
\* that statement comes after the write and the discriminant-set.
C5_UnrecognizedStatementDisqualifies ==
    \A r \in 1..run : \A b \in Handled(r) :
        (\E i \in DOMAIN Before(r, b).statements :
             ~Recognized(Before(r, b).statements[i]))
        => /\ log[r][b] = "none"
           /\ After(r, b) = Before(r, b)

\* The non-empty move chain is broken: some link's source is not the previous
\* link's destination, the first link's source is not the read's destination,
\* or the last link's destination is not the write's source
ChainBroken(info) ==
    LET chain == info.field_tmp_assignments
    IN  /\ chain # << >>
        /\ \/ \E k \in 2..Len(chain) : chain[k][2] # chain[k - 1][1]
           \/ chain[1][2] # info.local_temp_0
           \/ chain[Len(chain)][1] # info.local_tmp_s1

\* A reason of claim C6 to reject the candidate
Invalid(info) ==
    \/ info.local_0 = info.local_1
    \/ info.vf_s0 # info.vf_s1
    \/ local_decls[info.local_0].ty # local_decls[info.local_1].ty
    \/ << info.set_discr_local, info.set_discr_var_idx >>
       # << info.local_0, info.vf_s1.var_idx >>
    \/ ChainBroken(info)

\* C6: a candidate that fails the validity check (source local equal to the
\* destination local, different field/variant descriptors, different declared
\* types, a discriminant-set of another local or variant, or a broken
\* non-empty chain) is not rewritten: the block's statements are those of the
\* input, in content, order and length.
C6_RejectionLeavesBlockUntouched ==
    \A r \in 1..run : \A b \in Handled(r) :
        (IsSome(Candidate(r, b)) /\ Invalid(Unwrap(Candidate(r, b))))
        => /\ log[r][b] = "rejected"
           /\ After(r, b).statements = Before(r, b).statements

\* A block with a chain of two links, the second of which does not end in
\* the write's source, was rejected and is as it was
C6_Witness ==
    \E r \in 1..run : \E b \in Handled(r) :
        /\ IsSome(Candidate(r, b))
        /\ Len(Unwrap(Candidate(r, b)).field_tmp_assignments) >= 2
        /\ Conditions1To4(Unwrap(Candidate(r, b)))
        /\ ChainBroken(Unwrap(Candidate(r, b)))
        /\ log[r][b] = "rejected"
        /\ After(r, b) = Before(r, b)

\* C7: running the pass again on the body a first run produced changes no
\* block; a block the first run rewrote, leftover statements or not, yields
\* no candidate or a rejected candidate in the second run.
C7_SecondRunChangesNothing ==
    \A r \in 2..run : \A b \in Handled(r) :
        /\ After(r, b) = Before(r, b)
        /\ log[r - 1][b] = "rewritten" => log[r][b] \in {"none", "rejected"}

IsMarker(stmt) == stmt.kind.kind \in {"StorageLive", "StorageDead"}

\* A second run has gone over a block that the first run rewrote to the move
\* and a leftover storage marker, and has left it as it was
C7_Witness ==
    /\ run >= 2
    /\ \E b \in Handled(2) :
        /\ log[1][b] = "rewritten"
        /\ Len(Before(2, b).statements) >= 2
        /\ \E i \in DOMAIN Before(2, b).statements : IsMarker(Before(2, b).statements[i])
        /\ log[2][b] = "none"
        /\ After(2, b) = Before(2, b)

IsAssignUse(stmt) == stmt.kind.kind = "Assign" /\ stmt.kind.rvalue.rv = "Use"

\* A plain copy or move between whole locals
IsPlainLink(stmt) ==
    /\ IsAssignUse(stmt)
    /\ stmt.kind.rvalue.operand.op \in {"Copy", "Move"}
    /\ IsSome(as_local(stmt.kind.place))
    /\ IsSome(as_local(stmt.kind.rvalue.operand.place))

Min(S) == CHOOSE x \in S : \A y \in S : x <= y

Max(S) == CHOOSE x \in S : \A y \in S : x >= y

\* In an accepted block: the read is the first statement that is no storage
\* marker, the links are the plain copies and moves after it, the recorded
\* write is the first other Use-assignment after it, the recorded
\* discriminant-set the first statement after it of any other kind
ReadIndex(stmts) == Min({i \in DOMAIN stmts : ~IsMarker(stmts[i])})

LinkIndices(stmts) ==
    {i \in DOMAIN stmts : i > ReadIndex(stmts) /\ IsPlainLink(stmts[i])}

WriteIndex(stmts) ==
    Min({i \in DOMAIN stmts :
            i > ReadIndex(stmts) /\ IsAssignUse(stmts[i]) /\ ~IsPlainLink(stmts[i])})

DiscrIndex(stmts) ==
    Min({i \in DOMAIN stmts :
            i > ReadIndex(stmts) /\ ~IsMarker(stmts[i]) /\ ~IsAssignUse(stmts[i])})

\* The locals that are the source or the destination of some link
ChainLocals(stmts) ==
    UNION { {stmts[i].kind.place.local, stmts[i].kind.rvalue.operand.place.local} :
            i \in LinkIndices(stmts) }

\* The indices of the paired storage markers of the chain's locals
PairedChainMarkers(stmts) ==
    LET pairs == Unwrap(get_arm_identity_info(stmts)).storage_stmts
    IN  UNION { {pairs[k][1], pairs[k][2]} :
                k \in {j \in DOMAIN pairs : pairs[j][3] \in ChainLocals(stmts)} }

\* The indices claim C8 says are removed
RemovedIndices(stmts) ==
    {WriteIndex(stmts), DiscrIndex(stmts)} \cup LinkIndices(stmts)
    \cup PairedChainMarkers(stmts)
    \cup {i \in DOMAIN stmts : stmts[i].kind = Nop}

\* `local_0 = move local_1`, with the discriminant-set's source_info
ExpectedMove(stmts) ==
    Statement(stmts[DiscrIndex(stmts)].source_info,
              Assign(LocalPlace(stmts[WriteIndex(stmts)].kind.place.local),
                     Use(Move(LocalPlace(
                         stmts[ReadIndex(stmts)].kind.rvalue.operand.place.local)))))

\* The statements from the i-th on that claim C8 says the result holds:
\* `move` at the index `read`, nothing at the indices `removed`
RECURSIVE ExpectedFrom(_, _, _, _, _)
ExpectedFrom(stmts, i, read, removed, move) ==
    IF i > Len(stmts) THEN << >>
    ELSE IF i = read THEN << move >> \o ExpectedFrom(stmts, i + 1, read, removed, move)
    ELSE IF i \in removed THEN ExpectedFrom(stmts, i + 1, read, removed, move)
    ELSE << stmts[i] >> \o ExpectedFrom(stmts, i + 1, read, removed, move)

\* C8: an accepted block becomes its statements in their order, with the
\* read replaced by `local_0 = move local_1` and never removed, with the
\* recorded write, the recorded discriminant-set, every link and every paired
\* storage marker of a link's source or destination removed, and with every
\* other statement but a Nop kept; a block of only the read, the chain, the
\* write, the discriminant-set and such markers becomes the move alone.
C8_ExactResultOfRewrite ==
    \A r \in 1..run : \A b \in Handled(r) :
        log[r][b] = "rewritten"
        => LET stmts == Before(r, b).statements
               read == ReadIndex(stmts)
               removed == RemovedIndices(stmts)
               move == ExpectedMove(stmts)
           IN  /\ After(r, b).statements = ExpectedFrom(stmts, 1, read, removed, move)
               /\ (DOMAIN stmts \ {read} \subseteq removed)
                  => After(r, b).statements = << move >>

\* A block was rewritten that held a paired marker of a chain local, now
\* removed, and another marker, which is kept beside the move
C8_Witness ==
    \E b \in Handled(1) :
        LET stmts == Before(1, b).statements
        IN  /\ log[1][b] = "rewritten"
            /\ PairedChainMarkers(stmts) # {}
            /\ \E i \in DOMAIN stmts : IsMarker(stmts[i]) /\ i \notin RemovedIndices(stmts)
            /\ Len(After(1, b).statements) >= 2
            /\ After(1, b).statements[1].kind.kind = "StorageLive"

\* The statements of the block the last candidate was found in
LastScanned == Before(run, Len(log[run])).statements

\* C9: the StorageLive statements are paired in statement order, each with
\* the StorageDead of its local that has the highest statement index among
\* those not yet paired; so of a local with more StorageDead than StorageLive
\* statements, the ones left unpaired are those of the lowest indices.
C9_PairingIsLastFirst ==
    IsSome(opt_info)
    => LET pairs == Unwrap(opt_info).storage_stmts
           deads(l) == {d \in DOMAIN LastScanned : LastScanned[d].kind = StorageDead(l)}
           paired == {pairs[k][2] : k \in DOMAIN pairs}
       IN  /\ \A k \in DOMAIN pairs :
                 pairs[k][2] =
                     Max(deads(pairs[k][3]) \ {pairs[j][2] : j \in 1..(k - 1)})
           /\ \A l \in Locals : \A d \in deads(l) \ paired : \A e \in deads(l) \cap paired :
                 d < e


---------------------------------------------------------------------------
(* SimplifyBranchSame: what the claims speak of *)

\* Block b has been examined by the loop, and the dead blocks are still there
Examined(b) == status = "running" /\ b \in DOMAIN basic_blocks /\ b < bb

\* Block b of the body handed to the pass ends in a SwitchInt
IsSwitch(b) == input[1][b].terminator.kind.kind = "SwitchInt"

\* The targets block b declares
Declared(b) == input[1][b].terminator.kind.targets

\* The body as it stood when the loop reached block b: the blocks before b
\* as the loop left them, the others as handed to the pass
BodyAt(b) ==
    [i \in DOMAIN basic_blocks |-> IF i < b THEN basic_blocks[i] ELSE input[1][i]]

\* The positions of the target list whose block is kept by the filter
SurvivingPositions(bbs, targets) ==
    { k \in DOMAIN targets :
        \/ bbs[targets[k]].terminator.kind.kind # "Unreachable"
        \/ \E i \in DOMAIN bbs[targets[k]].statements :
               bbs[targets[k]].statements[i].kind.kind = "InlineAsm" }

\* The kinds of a block's statements, in order
KindsOf(block) == [i \in DOMAIN block.statements |-> block.statements[i].kind]

\* Two blocks are equivalent: cleanup flag, terminator kind, statement kinds
Alike(l, r) ==
    /\ l.is_cleanup = r.is_cleanup
    /\ l.terminator.kind = r.terminator.kind
    /\ KindsOf(l) = KindsOf(r)

\* Every two surviving targets are equivalent, adjacent in the list or not
AllAlike(bbs, targets) ==
    \A j, k \in SurvivingPositions(bbs, targets) :
        Alike(bbs[targets[j]], bbs[targets[k]])

\* The first surviving target, or the first declared one if none survives
FirstSurviving(bbs, targets) ==
    LET S == SurvivingPositions(bbs, targets)
    IN  IF S = {} THEN targets[1]
        ELSE targets[CHOOSE k \in S : \A j \in S : k <= j]

\* What is to be decided for a SwitchInt with these targets in this body:
\* << t >> to jump to t, << >> to leave the SwitchInt
Decision(bbs, targets) ==
    IF AllAlike(bbs, targets) THEN Some(FirstSurviving(bbs, targets)) ELSE None

\* What the loop did decide for block b
Decided(b) ==
    IF basic_blocks[b].terminator.kind.kind = "Goto"
    THEN Some(basic_blocks[b].terminator.kind.target)
    ELSE None

\* C2: a SwitchInt block all of whose surviving targets are equivalent when
\* the block is examined gets a Goto to the first surviving target, or to
\* the first declared target if none survives; nothing else of it changes
C2_EquivalentTargetsCollapse ==
    \A b \in DOMAIN basic_blocks :
        (Examined(b) /\ IsSwitch(b) /\ AllAlike(BodyAt(b), Declared(b)))
        => basic_blocks[b] =
               [input[1][b] EXCEPT !.terminator.kind =
                                       Goto(FirstSurviving(BodyAt(b), Declared(b)))]

\* A SwitchInt whose first declared target is filtered out and whose two
\* surviving targets are two blocks of the same form has become a Goto to
\* the first of the two
C2_Witness ==
    \E b \in DOMAIN basic_blocks :
        /\ Examined(b) /\ IsSwitch(b)
        /\ ~(1 \in SurvivingPositions(BodyAt(b), Declared(b)))
        /\ \E j, k \in SurvivingPositions(BodyAt(b), Declared(b)) :
               j < k /\ Declared(b)[j] # Declared(b)[k]
        /\ AllAlike(BodyAt(b), Declared(b))
        /\ basic_blocks[b].terminator.kind.kind = "Goto"
        /\ basic_blocks[b].terminator.kind.target # Declared(b)[1]

\* C3: a SwitchInt block two of whose surviving targets differ when the
\* block is examined, adjacent in the target list or not, is left as it was
C3_DifferingTargetsKeepSwitch ==
    \A b \in DOMAIN basic_blocks :
        (Examined(b) /\ IsSwitch(b) /\ ~AllAlike(BodyAt(b), Declared(b)))
        => basic_blocks[b] = input[1][b]

\* A SwitchInt of three surviving targets has been examined and kept: the
\* first two targets are equivalent, the first and the third are not
C3_Witness ==
    \E b \in DOMAIN basic_blocks :
        /\ Examined(b) /\ IsSwitch(b)
        /\ Len(Declared(b)) = 3
        /\ SurvivingPositions(BodyAt(b), Declared(b)) = {1, 2, 3}
        /\ Alike(BodyAt(b)[Declared(b)[1]], BodyAt(b)[Declared(b)[2]])
        /\ ~Alike(BodyAt(b)[Declared(b)[1]], BodyAt(b)[Declared(b)[3]])
        /\ basic_blocks[b] = input[1][b]

\* C10 as stated: what the loop decides for a SwitchInt block is what is to
\* be decided for it in the body handed to the pass
C10_DecisionIsThatOfTheInputBody ==
    \A b \in DOMAIN basic_blocks :
        (Examined(b) /\ IsSwitch(b))
        => Decided(b) = Decision(input[1], Declared(b))

\* Some target of block b is a block before b that the loop has rewritten
TargetsRewritten(b) ==
    \E k \in DOMAIN Declared(b) :
        Declared(b)[k] < b /\ basic_blocks[Declared(b)[k]] # input[1][Declared(b)[k]]

\* C10 amended: what the loop decides for a SwitchInt block is what is to be
\* decided for it in the body as it stands when the block is examined, the
\* blocks before it already rewritten; it is what is to be decided in the
\* body handed to the pass if no target of the block was rewritten before
C10_DecisionIsThatOfTheCurrentBody ==
    \A b \in DOMAIN basic_blocks :
        (Examined(b) /\ IsSwitch(b))
        => /\ Decided(b) = Decision(BodyAt(b), Declared(b))
           /\ ~TargetsRewritten(b) => Decided(b) = Decision(input[1], Declared(b))

\* The first block has been rewritten, and a later SwitchInt block that does
\* not jump to it has been decided as in the body handed to the pass, one
\* of its targets kept by the filter only for its InlineAsm
C10_Witness ==
    \E b \in DOMAIN basic_blocks :
        /\ Examined(b) /\ IsSwitch(b) /\ b > 1
        /\ basic_blocks[1] # input[1][1]
        /\ ~TargetsRewritten(b)
        /\ \E k \in SurvivingPositions(BodyAt(b), Declared(b)) :
               BodyAt(b)[Declared(b)[k]].terminator.kind.kind = "Unreachable"
        /\ Decided(b) = Decision(input[1], Declared(b))

===========================================================================
